---- MODULE Spec2Model ----
(***************************************************************************)
(* aoSystem: the application class mxAOSystem_app of src/aoSystem.cpp.     *)
(*                                                                         *)
(* One run of the program is: construction (the constructor's defaults),   *)
(* loadConfig (the parsed options are copied into the application and the  *)
(* AO system model), execute (one analysis routine, then the setup dump).  *)
(*                                                                         *)
(* Abstractions.  Real numbers are small integers: wavelengths are in nm,  *)
(* times in ticks of 1/TicksPerSec seconds, frequencies in units of the    *)
(* default spacing dfreq, the coherence length in cm.  Of the options      *)
(* setupConfig declares, the model                                         *)
(* carries those in Options.  Reading a field of the model (aosys.D()) is  *)
(* a read of the record aosys and is not logged.  The mxlib                *)
(* library (aoSystem<>, fourierTemporalPSD<>, clGainOpt<>, fitsFile<>) is  *)
(* not part of the program: a call into it is recorded in a log (`loads`,   *)
(* `calls`) together with the configuration of the model at the time of the call,   *)
(* and a value it returns is either a symbol naming the query or, for a    *)
(* status, an input of the action.  main (mx::app::application) parses the *)
(* options, calls loadConfig and returns what execute returns.             *)
(***************************************************************************)
EXTENDS Integers, Sequences, FiniteSets, TLC

VARIABLES
    config,     \* the parsed options: a function from the options that are set to their values
    app,        \* the members of mxAOSystem_app
    aosys,      \* the configuration held by the AO system model (member aosys)
    loads,      \* log of the calls loadConfig has made on the model
    calls,      \* log of the calls execute has made on the model and the engines
    invoked,    \* the analysis routines execute has invoked, in order
    cout,       \* the lines written to standard output
    cerr,       \* the messages written to standard error
    files,      \* the files written, in order
    pc,         \* "parse", "execute", "done" (main returned) or "exited" (exit() was called)
    rv          \* the process status: execute's return value or exit()'s argument

vars == <<config, app, aosys, loads, calls, invoked, cout, cerr, files, pc, rv>>

(***************************************************************************)
(* Bounds                                                                  *)
(***************************************************************************)
\* the largest number of options one configuration sets
MaxSet == 3
\* the longest starMags vector
MaxMags == 2
\* the number of time ticks in one second (the unit of minTauWFS)
TicksPerSec == 5

(***************************************************************************)
(* The options and the values a configuration may give them                *)
(***************************************************************************)
ModeNames ==
    {"C0Raw", "C0Map", "C1Raw", "C1Map", "C2Raw", "C2Map", "C4Raw", "C4Map",
     "C6Raw", "C6Map", "C7Raw", "C7Map", "CAllRaw", "CProfAll", "ErrorBudget",
     "Strehl", "temporalPSD", "temporalPSDGrid", "temporalPSDGridAnalyze"}

MagValues == {5, 8}

RECURSIVE SeqsUpTo(_, _)
SeqsUpTo(S, n) ==
    IF n = 0 THEN {<<>>}
    ELSE LET shorter == SeqsUpTo(S, n - 1)
         IN  shorter \cup {Append(q, v) : q \in shorter, v \in S}

Options ==
    {"mode", "wfeUnits", "model", "wfs", "lam_sci", "fit_mn_max", "starMag",
     "starMags", "minTauWFS", "dfreq", "gridDir", "subDir", "lpNc", "setupOutFile",
     "lam_0", "layer_Cn2", "r_0", "component", "deltaTau"}

OptionValues(o) ==
    CASE o = "mode"         -> ModeNames \cup {"C3Raw"}
      [] o = "wfeUnits"     -> {"rad", "nm", "um"}
      [] o = "model"        -> {"Guyon2005", "MagAOX", "GMagAOX", "Keck"}
      [] o = "wfs"          -> {"ideal", "idealWFS", "unmodPyWFS", "asympModPyWFS", "shackHartmann"}
      [] o = "lam_sci"      -> {800, 1600}
      [] o = "fit_mn_max"   -> {0, 2}
      [] o = "starMag"      -> MagValues
      [] o = "starMags"     -> SeqsUpTo(MagValues, MaxMags) \ {<<>>}
      [] o = "minTauWFS"    -> {-1, 0, 2}
      [] o = "dfreq"        -> {0, 2}
      [] o = "gridDir"      -> {"", "grid"}
      [] o = "subDir"       -> {"", "sub"}
      [] o = "lpNc"         -> {1, 2}
      [] o = "setupOutFile" -> {"setup.txt"}
      [] o = "lam_0"        -> {500}
      [] o = "layer_Cn2"    -> {<<1, 3>>}
      [] o = "r_0"          -> {20}
      [] o = "component"    -> {"phase", "amplitude", "dispPhase", "dispAmplitude", "dispersion"}
      [] o = "deltaTau"     -> {3}

isSet(name) == name \in DOMAIN config

\* config(target, name): the option's value when it is set, the target unchanged otherwise
Cfg(target, name) == IF isSet(name) THEN config[name] ELSE target

(***************************************************************************)
(* The AO system model (mx::AO::analysis::aoSystem) as the program sees    *)
(* it: a record of configuration fields behind setters, and queries        *)
(***************************************************************************)
\* a call on the model or an engine: its name, its arguments and the
\* configuration of the model once the call has been made
Call(f, arg, cfg) == [f |-> f, arg |-> arg, cfg |-> cfg]

\* std::cerr << text
Err(x, text) == [x EXCEPT !.cerr = Append(@, text)]

\* aosys.<field>(v): a setter
Set(s, field, v) ==
    LET a == [s.aosys EXCEPT ![field] = v]
    IN  [s EXCEPT !.aosys = a, !.calls = Append(@, Call(field, <<v>>, a))]

\* aosys.<f>(): a query that leaves the configuration alone
Query(s, f) == [s EXCEPT !.calls = Append(@, Call(f, <<>>, s.aosys))]

RECURSIVE QueryAll(_, _)
QueryAll(s, fs) ==
    IF fs = <<>> THEN s ELSE QueryAll(Query(s, Head(fs)), Tail(fs))

\* the values the three presets of the library give the fields modelled here
\* (minTauWFS and deltaTau in ticks, lam_sci and lam_0 in nm, r_0 in cm)
PresetTable(model) ==
    CASE model = "Guyon2005" -> [D |-> 8,  d_min |-> 1, lam_sci |-> 1600, minTauWFS |-> 0, starMag |-> 8,
                                 deltaTau |-> 0, lam_0 |-> 550, r_0 |-> 18, layer_Cn2 |-> <<1>>]
      [] model = "MagAOX"    -> [D |-> 6,  d_min |-> 1, lam_sci |-> 900,  minTauWFS |-> 1, starMag |-> 0,
                                 deltaTau |-> 2, lam_0 |-> 550, r_0 |-> 17, layer_Cn2 |-> <<2, 1>>]
      [] model = "GMagAOX"   -> [D |-> 25, d_min |-> 1, lam_sci |-> 900,  minTauWFS |-> 1, starMag |-> 0,
                                 deltaTau |-> 2, lam_0 |-> 550, r_0 |-> 17, layer_Cn2 |-> <<2, 1>>]

\* aosys.loadGuyon2005(), aosys.loadMagAOX(), aosys.loadGMagAOX()
LoadPreset(s, model) ==
    LET t == PresetTable(model)
        a == [f \in DOMAIN s.aosys |-> IF f \in DOMAIN t THEN t[f] ELSE s.aosys[f]]
    IN  [s EXCEPT !.aosys = a, !.calls = Append(@, Call("load", <<model>>, a))]

(***************************************************************************)
(* Construction                                                            *)
(***************************************************************************)
\* the model as the library constructs it, before the constructor's preset
aosysBlank ==
    [wfs |-> "none", D |-> 0, d_min |-> 0, lam_sci |-> 0, fit_mn_max |-> 2,
     starMag |-> 0, minTauWFS |-> 0, deltaTau |-> 0, lam_0 |-> 0, r_0 |-> 0,
     layer_Cn2 |-> <<>>, component |-> "phase"]

\* mxAOSystem_app::mxAOSystem_app()
Construct ==
    LET s0 == [app |-> [lam_0        |-> 0,
                        dumpSetup    |-> TRUE,
                        setupOutName |-> "mxAOAnalysisSetup.txt",
                        mode         |-> "C2Raw",
                        wfeUnits     |-> "rad",
                        mnMap        |-> 50,
                        starMags     |-> <<>>,
                        dfreq        |-> 1,
                        gridDir      |-> "",
                        subDir       |-> "",
                        lpNc         |-> 0],
               aosys |-> aosysBlank,
               calls |-> <<>>,
               cerr  |-> <<>>,
               st    |-> "run"]
        s1 == Set(s0, "wfs", "idealWFS")
    IN  LoadPreset(s1, "MagAOX")

Init ==
    /\ config = <<>>
    /\ app = Construct.app
    /\ aosys = Construct.aosys
    /\ loads = <<>>
    /\ calls = <<>>
    /\ invoked = <<>>
    /\ cout = <<>>
    /\ cerr = <<>>
    /\ files = <<>>
    /\ pc = "parse"
    /\ rv = <<>>

(***************************************************************************)
(* The parser of the library reads one more option of the command line or  *)
(* the configuration file, among those setupConfig declares                *)
(***************************************************************************)
Parse ==
    /\ pc = "parse"
    /\ Cardinality(DOMAIN config) < MaxSet
    /\ \E o \in Options \ DOMAIN config :
          \E v \in OptionValues(o) : config' = (o :> v) @@ config
    /\ UNCHANGED <<app, aosys, loads, calls, invoked, cout, cerr, files, pc, rv>>

(***************************************************************************)
(* loadConfig                                                              *)
(***************************************************************************)
\* App setup: mode, wfeUnits
LoadApp(s) ==
    [s EXCEPT !.app.mode = Cfg(@, "mode"), !.app.wfeUnits = Cfg(@, "wfeUnits")]

\* Models: a named preset, applied before every other option of the model
LoadModels(s) ==
    LET model == Cfg("", "model")
    IN  IF model # ""
        THEN IF model = "Guyon2005" THEN LoadPreset(s, "Guyon2005")
             ELSE IF model = "MagAOX" THEN LoadPreset(s, "MagAOX")
             ELSE IF model = "GMagAOX" THEN LoadPreset(s, "GMagAOX")
             ELSE [Err(s, "Unknown model: ") EXCEPT !.st = "returned"]
        ELSE s

\* the coherence length the library derives from a vector of layer strengths
R0Of(lcn2) == 10 + Len(lcn2)

\* aosys.atm.layer_Cn2(lcn2, lam_0): the layer strengths; with a reference wavelength
\* that is not 0 the coherence length is recomputed from them
SetLayerCn2(s, lcn2, l0) ==
    LET a == IF l0 # 0
             THEN [s.aosys EXCEPT !.layer_Cn2 = lcn2, !.r_0 = R0Of(lcn2), !.lam_0 = l0]
             ELSE [s.aosys EXCEPT !.layer_Cn2 = lcn2]
    IN  [s EXCEPT !.aosys = a, !.calls = Append(@, Call("layer_Cn2", <<lcn2, l0>>, a))]

\* aosys.atm.r_0(r_0, lam_0): the coherence length at the reference wavelength
SetR0(s, r_0, l0) ==
    LET a == [s.aosys EXCEPT !.r_0 = r_0, !.lam_0 = l0]
    IN  [s EXCEPT !.aosys = a, !.calls = Append(@, Call("r_0", <<r_0, l0>>, a))]

\* an atmosphere section that applies r_0 before layer_Cn2
LoadAtmosphereR0First(s) ==
    LET s1 == [s EXCEPT !.app.lam_0 = Cfg(@, "lam_0")]
        s2 == IF isSet("r_0") THEN SetR0(s1, Cfg(0, "r_0"), s1.app.lam_0) ELSE s1
    IN  IF isSet("layer_Cn2")
        THEN SetLayerCn2(s2, Cfg(s2.aosys.layer_Cn2, "layer_Cn2"), s2.app.lam_0)
        ELSE s2

\* Atmosphere: lam_0, then layer_Cn2, then r_0
LoadAtmosphere(s) ==
    LET s1 == [s EXCEPT !.app.lam_0 = Cfg(@, "lam_0")]
        s2 == IF isSet("layer_Cn2")
              THEN SetLayerCn2(s1, Cfg(s1.aosys.layer_Cn2, "layer_Cn2"), s1.app.lam_0)
              ELSE s1
    IN  IF isSet("r_0") THEN SetR0(s2, Cfg(0, "r_0"), s2.app.lam_0) ELSE s2

\* the names the component selection recognizes
ComponentNames == {"phase", "amplitude", "dispPhase", "dispAmplitude"}

\* a selection that ends the process on a name it does not recognize
LoadComponentStrict(s) ==
    IF isSet("component")
    THEN IF Cfg("", "component") \in ComponentNames
         THEN Set(s, "component", Cfg("", "component"))
         ELSE [Err(s, "Unknown component") EXCEPT !.st = "exited"]
    ELSE s

\* PSD: the component selection; the last else branch is empty
LoadComponent(s) ==
    IF isSet("component")
    THEN LET comp == Cfg("", "component")
         IN  IF comp = "phase" THEN Set(s, "component", "phase")
             ELSE IF comp = "amplitude" THEN Set(s, "component", "amplitude")
             ELSE IF comp = "dispPhase" THEN Set(s, "component", "dispPhase")
             ELSE IF comp = "dispAmplitude" THEN Set(s, "component", "dispAmplitude")
             ELSE s
    ELSE s

\* System: the WFS selection
LoadWFS(s) ==
    IF isSet("wfs")
    THEN LET wfs == Cfg("", "wfs")
         IN  IF wfs = "ideal" THEN Set(s, "wfs", "idealWFS")
             ELSE IF wfs = "unmodPyWFS" THEN Set(s, "wfs", "unmodPyWFS")
             ELSE IF wfs = "asympModPyWFS" THEN Set(s, "wfs", "asympModPyWFS")
             ELSE [Err(s, "Unkown WFS type") EXCEPT !.st = "exited"]
    ELSE s

\* System: an option that is applied only when it is set
LoadIfSet(s, name) ==
    IF isSet(name) THEN Set(s, name, Cfg(s.aosys[name], name)) ELSE s

\* System: the options after the WFS selection
LoadSystem(s) ==
    LET s0 == Set(s, "minTauWFS", Cfg(s.aosys.minTauWFS, "minTauWFS"))
        s1 == Set(s0, "deltaTau", Cfg(s0.aosys.deltaTau, "deltaTau"))
        s2 == LoadIfSet(s1, "lam_sci")
        s3 == LoadIfSet(s2, "fit_mn_max")
        s4 == LoadIfSet(s3, "starMag")
    IN  IF isSet("starMags") THEN [s4 EXCEPT !.app.starMags = Cfg(@, "starMags")] ELSE s4

\* Temporal PSDs: dfreq, gridDir, subDir, lpNc
LoadTemporal(s) ==
    [s EXCEPT !.app.dfreq = Cfg(@, "dfreq"), !.app.gridDir = Cfg(@, "gridDir"),
              !.app.subDir = Cfg(@, "subDir"), !.app.lpNc = Cfg(@, "lpNc")]

\* a loadConfig that applies the named preset after the options
loadConfigPresetLast(s) ==
    LET s1 == LoadComponent(LoadAtmosphere(LoadApp(s)))
        s2 == LoadWFS(s1)
        s3 == IF s2.st = "run" THEN LoadTemporal(LoadSystem(s2)) ELSE s2
    IN  IF s3.st = "run" THEN LoadModels(s3) ELSE s3

\* mxAOSystem_app::loadConfig(): a section runs only while the function has neither
\* returned nor exited
loadConfig(s) ==
    LET s0 == LoadModels(LoadApp(s))
        s1 == IF s0.st = "run" THEN LoadComponent(LoadAtmosphere(s0)) ELSE s0
        s2 == IF s1.st = "run" THEN LoadWFS(s1) ELSE s1
        s3 == IF s2.st = "run" THEN LoadSystem(s2) ELSE s2
    IN  IF s3.st = "run" THEN LoadTemporal(s3) ELSE s3

LoadConfig ==
    /\ pc = "parse"
    /\ \E s \in {loadConfig([app |-> app, aosys |-> aosys, calls |-> loads,
                              cerr |-> cerr, st |-> "run"])} :
           /\ app' = s.app
           /\ cerr' = s.cerr
           /\ aosys' = s.aosys
           /\ loads' = s.calls
           /\ pc' = IF s.st = "exited" THEN "exited" ELSE "execute"
           /\ rv' = IF s.st = "exited" THEN <<-1>> ELSE rv
    /\ UNCHANGED <<config, calls, invoked, cout, files>>

(***************************************************************************)
(* Output                                                                  *)
(***************************************************************************)
\* a printed number: the quantity q, the value or star magnitude it is taken at,
\* and the factor it is multiplied by before it is printed (1: printed as it is)
Item(q, val, units) == [q |-> q, val |-> val, units |-> units]

\* a line of text on a stream
Line(text, items) == [text |-> text, items |-> items]

Cout(x, text, items) == [x EXCEPT !.cout = Append(@, Line(text, items))]

\* ff.write(name, image)
WriteFile(x, name) == [x EXCEPT !.files = Append(@, name)]

\* a call on an engine of the library
Engine(x, f, arg) == [x EXCEPT !.calls = Append(@, Call(f, arg, x.aosys))]

\* what a routine hands back: the state it leaves and its return value
Ret(x, status) == [x |-> x, rv |-> status]

(***************************************************************************)
(* The contrast routines                                                   *)
(***************************************************************************)
\* the rows i = from .. n-1 of a table, each made of the queries qs at (i, 0)
RECURSIVE RawRows(_, _, _, _)
RawRows(x, qs, from, n) ==
    IF from >= n THEN x
    ELSE LET x1 == QueryAll(x, qs)
             row == <<Item("i", from, 1)>> \o
                    [k \in 1..Len(qs) |-> Item(qs[k], x.aosys.starMag, 1)]
         IN  RawRows(Cout(x1, "row", row), qs, from + 1, n)

\* the rows i = 0 .. n-1 of a convolved profile with the columns ims
ProfRows(x, ims, n) ==
    LET cols   == [k \in 1..Len(ims) |-> Item(ims[k], x.aosys.starMag, 1)]
        row(i) == <<Item("i", i, 1)>> \o cols
    IN  [x EXCEPT !.cout = @ \o [i \in 1..n |-> Line("row", row(i - 1))]]

\* mxAOSystem_app::C_MapCon
C_MapCon(x, mapFile) ==
    LET x1 == Engine(x, "varmapToImage", <<>>)
        x2 == ProfRows(x1, <<"im">>, app.mnMap)
    IN  WriteFile(x2, mapFile)

\* C0Raw, C1Raw, C2Raw, C4Raw, C6Raw, C7Raw
CRaw(x, map, c, file) ==
    LET x1 == Query(x, map)
        x2 == WriteFile(x1, file)
    IN  Ret(RawRows(x2, <<c>>, 0, x.aosys.fit_mn_max), 0)

\* C0Map, C1Map, C2Map, C4Map, C6Map, C7Map
CMap(x, map, file) == Ret(C_MapCon(Query(x, map), file), 0)

\* mxAOSystem_app::CAllRaw
CAllRaw(x) ==
    Ret(RawRows(x, <<"C0", "C1", "C2", "C4", "C6", "C7">>, 0, x.aosys.fit_mn_max), 0)

RECURSIVE MapAll(_, _)
MapAll(x, maps) ==
    IF maps = <<>> THEN x
    ELSE MapAll(Engine(Query(x, Head(maps)), "varmapToImage", <<>>), Tail(maps))

\* mxAOSystem_app::CProfAll
CProfAll(x) ==
    LET x1 == MapAll(x, <<"C0Map", "C1Map", "C2Map", "C4Map", "C6Map", "C7Map">>)
        x2 == Cout(x1, "#PSF-convolved PSF profiles.", <<>>)
        x3 == Cout(x2, "#Sep    C0    C1    C2    C4     C6    C7", <<>>)
    IN  Ret(ProfRows(x3, <<"im0", "im1", "im2", "im4", "im6", "im7">>, app.mnMap), 0)

(***************************************************************************)
(* ErrorBudget and Strehl                                                  *)
(***************************************************************************)
\* lam_sci / (2 pi) / 1e-9 for a wavelength in nm
NmPerRad(lam) == (lam * 1000) \div 6283

\* a factor that is applied for every unit name but rad
UnitsNotRad(wfeUnits, lam_sci) == IF wfeUnits # "rad" THEN NmPerRad(lam_sci) ELSE 1

\* the factor on the printed error magnitudes
Units(wfeUnits, lam_sci) == IF wfeUnits = "nm" THEN NmPerRad(lam_sci) ELSE 1

\* a single-magnitude output with a fifth error term
SingleTermsFive ==
    << <<"Measurement: ", "measurementError">>, <<"Time-delay:  ", "timeDelayError">>,
       <<"Fitting:     ", "fittingError">>,     <<"Chr-Scint:   ", "chromScintOPDError">>,
       <<"NCP error:   ", "ncpError">> >>

\* the error terms of the single-magnitude output, in the order printed
SingleTerms ==
    << <<"Measurement: ", "measurementError">>, <<"Time-delay:  ", "timeDelayError">>,
       <<"Fitting:     ", "fittingError">>,     <<"NCP error:   ", "ncpError">> >>

\* the error terms of one row of the sweep table, in the order printed
SweepTerms ==
    <<"measurementError", "timeDelayError", "fittingError", "chromScintOPDError",
      "chromIndexError", "dispAnisoOPDError", "ncpError">>

\* std::cout << label << sqrt(aosys.<term>())*units << "\n", for each term in turn
RECURSIVE SingleLines(_, _, _)
SingleLines(x, terms, units) ==
    IF terms = <<>> THEN x
    ELSE LET t  == Head(terms)
             x1 == Query(x, t[2])
         IN  SingleLines(Cout(x1, t[1], <<Item(t[2], x.aosys.starMag, units)>>),
                         Tail(terms), units)

\* the Strehl value is printed as the model returns it
StrehlItem(x) == Item("strehl", x.aosys.starMag, 1)

\* a pass that prints the row first and sets the star magnitude afterwards
SweepRowSetLate(x, mag, units) ==
    LET x1  == QueryAll(x, <<"d_opt">> \o SweepTerms \o <<"strehl">>)
        row == <<Item("starMags[i]", mag, 1), Item("d_opt", x.aosys.starMag, 1)>> \o
               [k \in 1..Len(SweepTerms) |-> Item(SweepTerms[k], x.aosys.starMag, units)] \o
               <<StrehlItem(x)>>
    IN  Set(Cout(x1, "row", row), "starMag", mag)

\* one pass of the sweep loop: set the star magnitude, then print the row
SweepRow(x, mag, units) ==
    LET x1  == Set(x, "starMag", mag)
        x2  == QueryAll(x1, <<"d_opt">> \o SweepTerms \o <<"strehl">>)
        row == <<Item("starMags[i]", mag, 1), Item("d_opt", x1.aosys.starMag, 1)>> \o
               [k \in 1..Len(SweepTerms) |-> Item(SweepTerms[k], x1.aosys.starMag, units)] \o
               <<StrehlItem(x1)>>
    IN  Cout(x2, "row", row)

\* a loop that stops after its first pass
SweepFirstOnly(x, mags, units) ==
    IF mags = <<>> THEN x ELSE SweepRow(x, Head(mags), units)

RECURSIVE Sweep(_, _, _)
Sweep(x, mags, units) ==
    IF mags = <<>> THEN x
    ELSE Sweep(SweepRow(x, Head(mags), units), Tail(mags), units)

\* mxAOSystem_app::ErrorBudget
ErrorBudget(x, wfeUnits, starMags) ==
    LET units == Units(wfeUnits, x.aosys.lam_sci)
        x0    == IF wfeUnits = "nm" THEN Err(x, "lam_sci") ELSE x
    IN  IF Len(starMags) = 0
        THEN LET x1 == SingleLines(x0, SingleTerms, units)
             IN  Ret(Cout(Query(x1, "strehl"), "Strehl:      ", <<StrehlItem(x1)>>), 0)
        ELSE LET x1 == Cout(x0, "#mag     d_opt        Measurement ...", <<>>)
             IN  Ret(Sweep(x1, starMags, units), 0)

\* a routine that sets the star magnitude to the first of starMags before it asks
StrehlAtFirstMag(x) ==
    LET x1 == IF Len(app.starMags) > 0 THEN Set(x, "starMag", app.starMags[1]) ELSE x
    IN  Ret(Cout(Query(x1, "strehl"), "", <<StrehlItem(x1)>>), 0)

\* mxAOSystem_app::Strehl
Strehl(x) == Ret(Cout(Query(x, "strehl"), "", <<StrehlItem(x)>>), 0)

(***************************************************************************)
(* The temporal PSD routines                                               *)
(***************************************************************************)
\* the number of frequencies 0.5*fs/dfreq, for fs = 1/minTauWFS
NFreq(minTauWFS, dfreq) == TicksPerSec \div (2 * minTauWFS * dfreq)

\* mx::math::vectorScale(freq, N, dfreq, dfreq): freq[i] = i*dfreq + dfreq, i = 0 .. N-1
vectorScale(N, scale, offset) == [i \in 1..N |-> (i - 1) * scale + offset]

\* the clGainOpt constructor's arguments 1.0/fs and 1.5/fs, in half ticks
GainOptArgs(minTauWFS) == <<2 * minTauWFS, 3 * minTauWFS>>

\* the rows of the table: one per frequency, the linear predictor's transfer
\* function evaluated only when its gain is not the sentinel
RECURSIVE PSDRows(_, _, _, _)
PSDRows(x, freq, i, goptLP) ==
    IF i > Len(freq) THEN x
    ELSE LET x1 == Engine(x, "go_si.clTF2", <<i>>)
             x2 == IF goptLP # -1 THEN Engine(x1, "go_lp.clTF2", <<i>>) ELSE x1
             lp == IF goptLP # -1 THEN "go_lp.clTF2" ELSE "-1"
             row == <<Item("freq", freq[i], 1), Item("psdOL", i, 1), Item("psdN", i, 1),
                      Item("ETF_SI", i, 1), Item("NTF_SI", i, 1),
                      Item("ETF_LP", lp, 1), Item("NTF_LP", lp, 1)>>
         IN  PSDRows(Cout(x2, "row", row), freq, i + 1, goptLP)

PSDHeader ==
    <<"# aoSystem single temporal PSD", "#    var OL = ", "#    opt-gain SI = ",
      "#    var SI = ", "#    LP Num. coeff = ", "#    opt-gain LP = ", "#    var LP = ",
      "#################################################################",
      "# freq    PSD-OL    PSD-N    ETF-SI  NTF-SI   ETF-LP   NTF-LP ">>

\* the numbers the header lines carry, line by line: what the single integrator's
\* optimization found, lpNc, and the linear predictor's gain and variance
PSDHeaderItems(lpNc, goptLP, varLP) ==
    << <<>>, <<>>, <<Item("goptSI", "optGainOpenLoop", 1)>>,
       <<Item("varSI", "optGainOpenLoop", 1)>>, <<Item("lpNc", lpNc, 1)>>,
       <<Item("goptLP", goptLP, 1)>>, <<Item("varLP", varLP, 1)>>, <<>>, <<>> >>

RECURSIVE CoutAll(_, _, _)
CoutAll(x, texts, items) ==
    IF texts = <<>> THEN x
    ELSE CoutAll(Cout(x, Head(texts), Head(items)), Tail(texts), Tail(items))

\* a test that takes the linear-predictor path for one coefficient already
UseLPFromOne(lpNc) == lpNc >= 1

\* if(lpNc > 1)
UseLP(lpNc) == lpNc > 1

\* temporalPSD once its preconditions hold: the frequency grid, the PSDs, the gain
\* optimization and the table; the gain the coefficient solver finds is a positive
\* number, written 1
PSDTable(x) ==
    LET freq   == vectorScale(NFreq(x.aosys.minTauWFS, app.dfreq), app.dfreq, app.dfreq)
        x1     == Engine(x, "vectorScale", <<Len(freq)>>)
        x2     == Engine(x1, "multiLayerPSD", <<Len(freq)>>)
        x3     == QueryAll(x2, <<"beta_p", "Fg">>)
        x4     == Engine(x3, "wfsNoisePSD", <<Len(freq)>>)
        x5     == Engine(x4, "go_si", GainOptArgs(x.aosys.minTauWFS))
        x6     == Engine(x5, "go_lp", GainOptArgs(x.aosys.minTauWFS))
        x7     == Engine(x6, "go_si.f", <<Len(freq)>>)
        x8     == Engine(x7, "optGainOpenLoop", <<>>)
        goptLP == IF UseLP(app.lpNc) THEN 1 ELSE -1
        varLP  == IF UseLP(app.lpNc) THEN "regularizeCoefficients" ELSE "-1"
        x9     == IF UseLP(app.lpNc)
                  THEN Engine(Engine(x8, "go_lp.f", <<Len(freq)>>),
                              "regularizeCoefficients", <<app.lpNc>>)
                  ELSE x8
        x10    == CoutAll(x9, PSDHeader, PSDHeaderItems(app.lpNc, goptLP, varLP))
    IN  Ret(PSDRows(x10, freq, 1, goptLP), 0)

\* a routine that prints its banner before it checks its preconditions
temporalPSDBannerFirst(x) ==
    LET b == Cout(x, "# aoSystem single temporal PSD", <<>>)
    IN  IF x.aosys.minTauWFS <= 0
        THEN Ret(Err(b, "temporalPSD: You must set minTauWFS to be > 0 to specify loop frequency."), -1)
        ELSE IF app.dfreq <= 0
        THEN Ret(Err(b, "temporalPSD: You must set dfreq to be > 0 to specify frequency sampling."), -1)
        ELSE PSDTable(x)

\* mxAOSystem_app::temporalPSD
temporalPSD(x) ==
    IF x.aosys.minTauWFS <= 0
    THEN Ret(Err(x, "temporalPSD: You must set minTauWFS to be > 0 to specify loop frequency."), -1)
    ELSE IF app.dfreq <= 0
    THEN Ret(Err(x, "temporalPSD: You must set dfreq to be > 0 to specify frequency sampling."), -1)
    ELSE PSDTable(x)

\* mxAOSystem_app::temporalPSDGrid
temporalPSDGrid(x) ==
    IF app.gridDir = ""
    THEN Ret(Err(x, "temporalPSDGrid: You must set gridDir."), -1)
    ELSE IF x.aosys.fit_mn_max <= 0
    THEN Ret(Err(x, "temporalPSDGrid: You must set fit_mn_max to be > 0."), -1)
    ELSE IF app.dfreq <= 0
    THEN Ret(Err(x, "temporalPSDGrid: You must set dfreq to be > 0 to specify frequency sampling."), -1)
    ELSE IF x.aosys.minTauWFS <= 0
    THEN Ret(Err(x, "temporalPSDGrid: You must set minTauWFS to be > 0 to specify loop frequency."), -1)
    ELSE Ret(Engine(x, "makePSDGrid", <<app.gridDir, x.aosys.fit_mn_max, app.dfreq>>), 0)

\* a grid analysis that does not check subDir
temporalPSDGridAnalyzeNoSubDir(x, status) ==
    IF app.gridDir = ""
    THEN Ret(Err(x, "temporalPSDGridAnalyze: You must set gridDir."), -1)
    ELSE IF x.aosys.fit_mn_max <= 0
    THEN Ret(Err(x, "temporalPSDGridAnalyze: You must set fit_mn_max to be > 0."), -1)
    ELSE LET mnCon == (x.aosys.D \div x.aosys.d_min) \div 2
             mags  == IF Len(app.starMags) = 0 THEN <<x.aosys.starMag>> ELSE app.starMags
         IN  Ret(Engine(x, "analyzePSDGrid",
                        <<app.subDir, app.gridDir, x.aosys.fit_mn_max, mnCon, app.lpNc, mags>>),
                 status)

\* mxAOSystem_app::temporalPSDGridAnalyze; status is what analyzePSDGrid returns
temporalPSDGridAnalyze(x, status) ==
    IF app.gridDir = ""
    THEN Ret(Err(x, "temporalPSDGridAnalyze: You must set gridDir."), -1)
    ELSE IF app.subDir = ""
    THEN Ret(Err(x, "temporalPSDGridAnalyze: You must set subDir."), -1)
    ELSE IF x.aosys.fit_mn_max <= 0
    THEN Ret(Err(x, "temporalPSDGridAnalyze: You must set fit_mn_max to be > 0."), -1)
    ELSE LET mnCon == (x.aosys.D \div x.aosys.d_min) \div 2
             mags  == IF Len(app.starMags) = 0 THEN <<x.aosys.starMag>> ELSE app.starMags
         IN  Ret(Engine(x, "analyzePSDGrid",
                        <<app.subDir, app.gridDir, x.aosys.fit_mn_max, mnCon, app.lpNc, mags>>),
                 status)

(***************************************************************************)
(* execute                                                                 *)
(***************************************************************************)
\* a chain that runs the routine a second time
RunTwice(name, r) ==
    [x |-> r.x, rv |-> r.rv,
     invoked |-> <<[routine |-> name, status |-> r.rv], [routine |-> name, status |-> r.rv]>>]

\* rv = <routine>(): the routine is invoked and its status kept
Run(name, r) == [x |-> r.x, rv |-> r.rv, invoked |-> <<[routine |-> name, status |-> r.rv]>>]

\* the else-if chain over mode
Dispatch(x, mode, status) ==
    IF mode = "C0Raw" THEN Run("C0Raw", CRaw(x, "C0Map", "C0", "C0Raw.fits"))
    ELSE IF mode = "C0Map" THEN Run("C0Map", CMap(x, "C0Map", "C0Map.fits"))
    ELSE IF mode = "C1Raw" THEN Run("C1Raw", CRaw(x, "C1Map", "C1", "C1Raw.fits"))
    ELSE IF mode = "C1Map" THEN Run("C1Map", CMap(x, "C1Map", "C1Map.fits"))
    ELSE IF mode = "C2Raw" THEN Run("C2Raw", CRaw(x, "C2Map", "C2", "C2Raw.fits"))
    ELSE IF mode = "C2Map" THEN Run("C2Map", CMap(x, "C2Map", "C2Map.fits"))
    ELSE IF mode = "C4Raw" THEN Run("C4Raw", CRaw(x, "C4Map", "C4", "C4Raw.fits"))
    ELSE IF mode = "C4Map" THEN Run("C4Map", CMap(x, "C4Map", "C4Map.fits"))
    ELSE IF mode = "C6Raw" THEN Run("C6Raw", CRaw(x, "C6Map", "C6", "C6Raw.fits"))
    ELSE IF mode = "C6Map" THEN Run("C6Map", CMap(x, "C6Map", "C6Map.fits"))
    ELSE IF mode = "C7Raw" THEN Run("C7Raw", CRaw(x, "C7Map", "C7", "C7Raw.fits"))
    ELSE IF mode = "C7Map" THEN Run("C7Map", CMap(x, "C7Map", "C7Map.fits"))
    ELSE IF mode = "CAllRaw" THEN Run("CAllRaw", CAllRaw(x))
    ELSE IF mode = "CProfAll" THEN Run("CProfAll", CProfAll(x))
    ELSE IF mode = "ErrorBudget" THEN Run("ErrorBudget", ErrorBudget(x, app.wfeUnits, app.starMags))
    ELSE IF mode = "Strehl" THEN Run("Strehl", Strehl(x))
    ELSE IF mode = "temporalPSD" THEN Run("temporalPSD", temporalPSD(x))
    ELSE IF mode = "temporalPSDGrid" THEN Run("temporalPSDGrid", temporalPSDGrid(x))
    ELSE IF mode = "temporalPSDGridAnalyze"
         THEN Run("temporalPSDGridAnalyze", temporalPSDGridAnalyze(Err(x, "1"), status))
    ELSE [x |-> Err(x, "Unknown mode: "), rv |-> -1, invoked |-> <<>>]

\* a dump that does not look at the status
DumpCondAnyStatus(dumpSetup, status) == dumpSetup

\* if(dumpSetup && rv == 0)
DumpCond(dumpSetup, status) == dumpSetup /\ status = 0

\* fout.open(setupOutName); aosys.dumpAOSystem(fout); fout.close()
DumpSetup(x) == WriteFile(Engine(x, "dumpAOSystem", <<app.setupOutName>>), app.setupOutName)

\* mxAOSystem_app::execute()
execute(x, status) ==
    LET r == Dispatch(x, app.mode, status)
    IN  [r EXCEPT !.x = IF DumpCond(app.dumpSetup, r.rv) THEN DumpSetup(@) ELSE @]

\* the statuses analyzePSDGrid may return
GridStatus == {0, -1}

Execute ==
    /\ pc = "execute"
    /\ \E status \in GridStatus :
          \E r \in {execute([aosys |-> aosys, calls |-> calls, cout |-> cout,
                             cerr |-> cerr, files |-> files], status)} :
              /\ aosys' = r.x.aosys
              /\ calls' = r.x.calls
              /\ cout' = r.x.cout
              /\ cerr' = r.x.cerr
              /\ files' = r.x.files
              /\ invoked' = invoked \o r.invoked
              /\ rv' = <<r.rv>>
    /\ pc' = "done"
    /\ UNCHANGED <<config, app, loads>>

Next == Parse \/ LoadConfig \/ Execute

Spec == Init /\ [][Next]_vars

(***************************************************************************)
(* Properties                                                              *)
(***************************************************************************)
\* the status of the analysis routine execute selected: what the routine returned,
\* or -1 when the mode is unknown and no routine was selected
RoutineStatus == IF invoked = <<>> THEN -1 ELSE invoked[Len(invoked)].status

\* the setup file has been opened and written
SetupWritten ==
    \/ \E i \in DOMAIN files : files[i] = app.setupOutName
    \/ \E i \in DOMAIN calls : calls[i].f = "dumpAOSystem"

\* the names of the calls execute has made
Called(f) == \E i \in DOMAIN calls : calls[i].f = f

\* C1: execute writes the setup file if and only if the selected routine returned 0,
\* and returns the routine's status unchanged; before execute has run, and when the
\* process has exited, the file is not written.
C1_SetupIffStatusZero ==
    /\ pc = "done" => /\ SetupWritten <=> RoutineStatus = 0
                      /\ rv = <<RoutineStatus>>
    /\ pc # "done" => ~SetupWritten

\* a grid analysis that failed: the engine was called, returned -1, and no setup file
C1_Witness ==
    /\ pc = "done"
    /\ Called("analyzePSDGrid")
    /\ RoutineStatus = -1
    /\ rv = <<-1>>
    /\ ~SetupWritten

\* C2: execute invokes at most one analysis routine: for a recognized mode exactly the
\* routine of that name, once; for any other mode none, and it returns -1.
C2_OneRoutinePerRun ==
    /\ Len(invoked) <= 1
    /\ pc # "done" => invoked = <<>>
    /\ pc = "done" /\ app.mode \in ModeNames =>
           /\ Len(invoked) = 1
           /\ invoked[1].routine = app.mode
    /\ pc = "done" /\ app.mode \notin ModeNames =>
           /\ invoked = <<>>
           /\ rv = <<-1>>

\* the last recognized name of the chain has run its routine
C2_Witness ==
    /\ pc = "done"
    /\ app.mode = "temporalPSDGridAnalyze"
    /\ Len(invoked) = 1
    /\ invoked[1].routine = "temporalPSDGridAnalyze"

\* the WFS names the selection accepts, and the presets the model option knows
AcceptedWFS == {"ideal", "unmodPyWFS", "asympModPyWFS"}
KnownModels == {"Guyon2005", "MagAOX", "GMagAOX"}

\* the setters loadConfig calls after the WFS selection
AfterWFS == {"minTauWFS", "deltaTau", "lam_sci", "fit_mn_max", "starMag"}

\* loadConfig has applied no option that comes after the WFS selection
NothingAfterWFS ==
    /\ \A i \in DOMAIN loads : loads[i].f \notin AfterWFS
    /\ app.starMags = Construct.app.starMags
    /\ app.dfreq = Construct.app.dfreq
    /\ app.gridDir = Construct.app.gridDir
    /\ app.subDir = Construct.app.subDir
    /\ app.lpNc = Construct.app.lpNc

\* C3: when wfs is set to a name that is not accepted, loadConfig ends the process at
\* once with a negative status: no later option is loaded, no analysis routine runs
\* and no setup file is written.
C3_UnknownWFSExits ==
    (pc # "parse" /\ isSet("wfs") /\ config["wfs"] \notin AcceptedWFS) =>
        /\ pc = "exited"
        /\ Len(rv) = 1 /\ rv[1] < 0
        /\ NothingAfterWFS
        /\ invoked = <<>>
        /\ ~SetupWritten

\* C4: when model is set to a name that is not a known preset, no analysis routine
\* runs afterwards and the process does not end with status 0.
C4_UnknownModelAborts ==
    (pc # "parse" /\ isSet("model") /\ config["model"] \notin KnownModels) =>
        /\ invoked = <<>>
        /\ rv # <<0>>

\* the calls temporalPSD makes on the model and the engines
PSDCalls ==
    {"vectorScale", "multiLayerPSD", "beta_p", "Fg", "wfsNoisePSD", "go_si", "go_lp",
     "go_si.f", "go_lp.f", "optGainOpenLoop", "regularizeCoefficients", "go_si.clTF2",
     "go_lp.clTF2"}

\* C5: temporalPSD with minTauWFS <= 0 or dfreq <= 0 returns -1 with no frequency
\* grid, no PSD engine, no gain optimizer and nothing on standard output; with both
\* > 0 it runs to the end (grid, PSDs, optimizer, header and one row per frequency)
\* and returns 0.
C5_TemporalPSDPreconditions ==
    (pc = "done" /\ app.mode = "temporalPSD") =>
        IF aosys.minTauWFS <= 0 \/ app.dfreq <= 0
        THEN /\ RoutineStatus = -1
             /\ \A i \in DOMAIN calls : calls[i].f \notin PSDCalls
             /\ cout = <<>>
        ELSE /\ RoutineStatus = 0
             /\ Called("vectorScale") /\ Called("multiLayerPSD") /\ Called("wfsNoisePSD")
             /\ Called("optGainOpenLoop")
             /\ Len(cout) = Len(PSDHeader) + NFreq(aosys.minTauWFS, app.dfreq)

\* temporalPSD has refused a frequency spacing that is not positive
C5_Witness ==
    /\ pc = "done"
    /\ app.mode = "temporalPSD"
    /\ aosys.minTauWFS > 0
    /\ app.dfreq <= 0
    /\ invoked = <<[routine |-> "temporalPSD", status |-> -1]>>
    /\ cout = <<>>

SweepDone == pc = "done" /\ app.mode = "ErrorBudget" /\ Len(app.starMags) > 0
SingleDone == pc = "done" /\ app.mode = "ErrorBudget" /\ Len(app.starMags) = 0

IsSetStarMag(c) == c.f = "starMag"
ErrorTerms == {SweepTerms[k] : k \in DOMAIN SweepTerms}

\* the number of times the star magnitude has been set before the i-th call
SetsBefore(i) == Cardinality({j \in 1..(i - 1) : IsSetStarMag(calls[j])})

\* C7: in a sweep over n star magnitudes the model's star magnitude is set n times,
\* the k-th time to starMags[k] and before every query of the k-th row, and the rows
\* come out in the order of the list, one per element.
C7_SweepInInputOrder ==
    SweepDone =>
        LET sets == SelectSeq(calls, IsSetStarMag)
            n    == Len(app.starMags)
        IN  /\ [k \in DOMAIN sets |-> sets[k].arg[1]] = app.starMags
            /\ \A i \in DOMAIN calls :
                  (calls[i].f \in ErrorTerms \cup {"d_opt", "strehl"}) =>
                      /\ SetsBefore(i) >= 1
                      /\ calls[i].cfg.starMag = app.starMags[SetsBefore(i)]
            /\ \A k \in 1..n :
                  Cardinality({i \in DOMAIN calls :
                                  calls[i].f \in ErrorTerms /\ SetsBefore(i) = k})
                      = Len(SweepTerms)
            /\ Len(cout) = n + 1
            /\ \A k \in 1..n : \A j \in DOMAIN cout[k + 1].items :
                  cout[k + 1].items[j].val = app.starMags[k]

\* a sweep over a list that is not sorted
C7_Witness == SweepDone /\ app.starMags = <<8, 5>> /\ aosys.starMag = 5

\* C8: ErrorBudget prints five lines for a single star magnitude, and one header
\* followed by one row per element of starMags for a list; it returns 0.
C8_ErrorBudgetLines ==
    (pc = "done" /\ app.mode = "ErrorBudget") =>
        /\ RoutineStatus = 0
        /\ Len(app.starMags) = 0 => Len(cout) = 5
        /\ Len(app.starMags) > 0 =>
              /\ Len(cout) = 1 + Len(app.starMags)
              /\ cout[1].items = <<>>
              /\ \A k \in 2..Len(cout) : cout[k].text = "row" /\ cout[k].items # <<>>

\* a table for the longest list
C8_Witness == SweepDone /\ Len(app.starMags) = MaxMags /\ Len(cout) = MaxMags + 1

\* the lines of the single-magnitude output that carry an error magnitude, and
\* those that carry a Strehl value
MagnitudeLines == {i \in DOMAIN cout : cout[i].items[1].q \in ErrorTerms}
StrehlLines == {i \in DOMAIN cout : cout[i].items[1].q = "strehl"}

\* C9 as stated: with a single star magnitude ErrorBudget prints five error
\* magnitudes and, in addition, one Strehl value.
C9_FiveMagnitudesAndStrehl ==
    SingleDone => Cardinality(MagnitudeLines) = 5 /\ Cardinality(StrehlLines) = 1

\* C9 as amended: with a single star magnitude ErrorBudget prints four error
\* magnitudes (measurement, time-delay, fitting, non-common-path) and, in addition,
\* one Strehl value, five lines in all.
C9_FourMagnitudesAndStrehl ==
    SingleDone =>
        /\ MagnitudeLines = 1..4
        /\ [i \in 1..4 |-> cout[i].items[1].q] =
              <<"measurementError", "timeDelayError", "fittingError", "ncpError">>
        /\ StrehlLines = {5}
        /\ Len(cout) = 5

\* the single-magnitude output has been printed
C9_Witness == SingleDone /\ Len(cout) = 5 /\ cout[5].text = "Strehl:      "

\* C10: the step of execute that runs ErrorBudget makes the calls, leaves the model
\* and prints the quantities that it would with wfeUnits = rad; a printed quantity
\* differs at most by its factor, which is 1 for the Strehl value, 1 for every
\* wfeUnits other than nm, and lam_sci/(2 pi) nm for an error magnitude under nm.
C10_UnitsOnlyScale ==
    [][(pc = "execute" /\ app.mode = "ErrorBudget") =>
          LET x   == [aosys |-> aosys, calls |-> calls, cout |-> cout, cerr |-> cerr,
                      files |-> files]
              rad == ErrorBudget(x, "rad", app.starMags).x
          IN  /\ SubSeq(calls', 1, Len(rad.calls)) = rad.calls
              /\ aosys' = rad.aosys
              /\ Len(cout') = Len(rad.cout)
              /\ \A i \in DOMAIN rad.cout :
                    /\ cout'[i].text = rad.cout[i].text
                    /\ Len(cout'[i].items) = Len(rad.cout[i].items)
                    /\ \A j \in DOMAIN rad.cout[i].items :
                          LET it == cout'[i].items[j]
                          IN  /\ it.q = rad.cout[i].items[j].q
                              /\ it.val = rad.cout[i].items[j].val
                              /\ it.q \notin ErrorTerms => it.units = 1
                              /\ app.wfeUnits # "nm" => it.units = 1
                              /\ (app.wfeUnits = "nm" /\ it.q \in ErrorTerms) =>
                                     it.units = NmPerRad(aosys.lam_sci)
      ]_vars

\* an error budget printed in nm: the error magnitudes are scaled, the Strehl is not
C10_Witness ==
    /\ pc = "done"
    /\ app.mode = "ErrorBudget"
    /\ app.wfeUnits = "nm"
    /\ \E i \in DOMAIN cout : \E j \in DOMAIN cout[i].items :
           cout[i].items[j].q \in ErrorTerms /\ cout[i].items[j].units # 1
    /\ \E i \in DOMAIN cout : \E j \in DOMAIN cout[i].items :
           cout[i].items[j].q = "strehl" /\ cout[i].items[j].units = 1

\* the number of calls of f execute has made
CallCount(f) == Cardinality({i \in DOMAIN calls : calls[i].f = f})

\* temporalPSD has run to its end
PSDDone == pc = "done" /\ app.mode = "temporalPSD" /\ RoutineStatus = 0

\* C11: a temporalPSD run with lpNc <= 1 never calls the coefficient solver, never
\* evaluates the linear predictor's transfer function, and prints -1 for every
\* linear-predictor output (gain, variance, ETF and NTF of every row) next to the
\* single integrator's results, one evaluation per row; with lpNc > 1 the solver is
\* called exactly once.
C11_LinearPredictorSkipped ==
    PSDDone =>
        LET rows == Len(cout) - Len(PSDHeader)
        IN  /\ CallCount("go_si.clTF2") = rows
            /\ CallCount("optGainOpenLoop") = 1
            /\ IF app.lpNc <= 1
               THEN /\ CallCount("regularizeCoefficients") = 0
                    /\ CallCount("go_lp.f") = 0
                    /\ CallCount("go_lp.clTF2") = 0
                    /\ \A i \in DOMAIN cout : \A j \in DOMAIN cout[i].items :
                          LET it == cout[i].items[j]
                          IN  /\ it.q = "goptLP" => it.val = -1
                              /\ it.q \in {"varLP", "ETF_LP", "NTF_LP"} => it.val = "-1"
               ELSE CallCount("regularizeCoefficients") = 1

\* the table of a run with exactly one coefficient: rows printed, no solver
C11_Witness ==
    /\ PSDDone
    /\ app.lpNc = 1
    /\ Len(cout) > Len(PSDHeader)
    /\ CallCount("regularizeCoefficients") = 0
    /\ cout[Len(cout)].items[6] = Item("ETF_LP", "-1", 1)

\* the calls the step of execute adds to the log
NewCalls == (Len(calls) + 1)..Len(calls')

\* the fields of the model other than the star magnitude
FrameFields == DOMAIN aosys \ {"starMag"}

DocumentedWFS == {"idealWFS", "unmodPyWFS", "asympModPyWFS"}

\* C12: when wfs is set to one of the three names its help text gives, loadConfig
\* does not take the unknown-WFS exit and the variant of that name is the active
\* one afterwards.
C12_DocumentedWFSAccepted ==
    (pc # "parse" /\ isSet("wfs") /\ config["wfs"] \in DocumentedWFS) =>
        /\ pc # "exited"
        /\ \A i \in DOMAIN cerr : cerr[i] # "Unkown WFS type"
        /\ aosys.wfs = config["wfs"]

\* C13: after a run that wrote the setup summary with setupOutFile set, the summary
\* is in the file of that name.
C13_SetupOutFileNamesTheFile ==
    (pc = "done" /\ isSet("setupOutFile") /\ SetupWritten) =>
        \E i \in DOMAIN files : files[i] = config["setupOutFile"]

\* the calls that construct the two gain optimizers
OptimizerCalls == {"go_si", "go_lp"}

\* C15: the delay temporalPSD hands to its two gain optimizers follows the configured
\* loop delay: the same step taken from a model that differs only in deltaTau hands
\* them a different delay.
C15_DelayFollowsDeltaTau ==
    [][(pc = "execute" /\ app.mode = "temporalPSD" /\ aosys.minTauWFS > 0 /\ app.dfreq > 0) =>
          \A d \in {aosys.deltaTau + 1, aosys.deltaTau + 2} :
              LET x     == [aosys |-> [aosys EXCEPT !.deltaTau = d], calls |-> calls,
                            cout |-> cout, cerr |-> cerr, files |-> files]
                  other == temporalPSD(x).x
              IN  \A i \in NewCalls :
                      calls'[i].f \in OptimizerCalls =>
                          calls'[i].arg[2] # other.calls[i].arg[2]
      ]_vars

\* loadConfig has returned at the Models section, on a model that is not a preset
ReturnedAtModels == isSet("model") /\ config["model"] \notin KnownModels /\ pc # "parse"

\* loadConfig has reached the unknown-WFS exit
ExitedAtWFS == pc = "exited"

\* the model as loadConfig left it: the configuration at its last call on the model
Loaded == loads[Len(loads)].cfg

\* the options of the model and of the application that loadConfig reads after the
\* WFS selection
SystemOptions == {"minTauWFS", "deltaTau", "lam_sci", "fit_mn_max", "starMag"}
TemporalOptions == {"starMags", "dfreq", "gridDir", "subDir", "lpNc"}

\* every option after the WFS selection that is set has been applied
LaterOptionsLoaded ==
    /\ Len(loads) > 0
    /\ \A o \in SystemOptions : isSet(o) => Loaded[o] = config[o]
    /\ \A o \in TemporalOptions : isSet(o) => app[o] = config[o]

\* component is set to a name the selection does not recognize
UnknownComponent == isSet("component") /\ config["component"] \notin ComponentNames

\* what loadConfig has written to standard error when nothing is reported for the
\* component: the report of an unknown model, or of an unknown WFS, or nothing
ReportsOfOthers ==
    IF ReturnedAtModels THEN <<"Unknown model: ">>
    ELSE IF isSet("wfs") /\ config["wfs"] \notin AcceptedWFS THEN <<"Unkown WFS type">>
    ELSE <<>>

LoadCalls(f) == {i \in DOMAIN loads : loads[i].f = f}

\* C18: loadConfig reads lam_0 first and hands that value to both atmosphere
\* setters; a call of layer_Cn2 comes before a call of r_0; and where loadConfig
\* reaches the atmosphere section, each of the two that is configured is applied once
\* with its configured value, and a configured r_0 is the coherence length from its
\* call on (also with layer_Cn2 configured, whose implied value it replaces).
C18_R0AfterLayerCn2 ==
    pc # "parse" =>
        /\ \A i \in LoadCalls("layer_Cn2") \cup LoadCalls("r_0") :
              /\ loads[i].arg[2] = app.lam_0
              /\ app.lam_0 = (IF isSet("lam_0") THEN config["lam_0"] ELSE 0)
        /\ \A i \in LoadCalls("layer_Cn2") : \A j \in LoadCalls("r_0") : i < j
        /\ ~ReturnedAtModels =>
              /\ isSet("layer_Cn2") =>
                    /\ Cardinality(LoadCalls("layer_Cn2")) = 1
                    /\ \A i \in LoadCalls("layer_Cn2") :
                          /\ loads[i].arg[1] = config["layer_Cn2"]
                          /\ loads[i].cfg.layer_Cn2 = config["layer_Cn2"]
              /\ isSet("r_0") =>
                    /\ Cardinality(LoadCalls("r_0")) = 1
                    /\ \A j \in LoadCalls("r_0") :
                          /\ loads[j].arg[1] = config["r_0"]
                          /\ \A k \in j..Len(loads) : loads[k].cfg.r_0 = config["r_0"]
                    /\ aosys.r_0 = config["r_0"]

\* both configured with a reference wavelength: the coherence length implied by
\* layer_Cn2 was in place for a moment and the configured r_0 has replaced it
C18_Witness ==
    /\ pc = "execute"
    /\ isSet("lam_0") /\ isSet("layer_Cn2") /\ isSet("r_0")
    /\ \E i \in LoadCalls("layer_Cn2") : loads[i].cfg.r_0 = R0Of(config["layer_Cn2"])
    /\ aosys.r_0 = config["r_0"]
    /\ aosys.r_0 # R0Of(config["layer_Cn2"])
    /\ aosys.lam_0 = config["lam_0"]

\* the options of the model that loadConfig reads before the WFS selection
AtmosphereOptions == {"layer_Cn2", "r_0"}

\* the variant a WFS name that is accepted selects
VariantOf(name) == IF name = "ideal" THEN "idealWFS" ELSE name

\* C19: in the log of loadConfig a call that loads a preset comes before every call
\* of a setter, there is one such call exactly when model names a preset, and every
\* option of the model that is set and that loadConfig gets to (it returns at an
\* unknown model and exits at an unknown WFS) has its configured value in the model
\* as loadConfig leaves it, whatever the preset wrote to that field.
C19_PresetBeforeOptions ==
    pc # "parse" =>
        /\ \A i \in LoadCalls("load") : \A j \in DOMAIN loads :
              loads[j].f # "load" => i < j
        /\ IF isSet("model") /\ config["model"] \in KnownModels
           THEN LoadCalls("load") = {1} /\ loads[1].arg = <<config["model"]>>
           ELSE LoadCalls("load") = {}
        /\ ~ReturnedAtModels =>
              /\ \A o \in AtmosphereOptions : isSet(o) => Loaded[o] = config[o]
              /\ (isSet("component") /\ ~UnknownComponent) =>
                    Loaded.component = config["component"]
              /\ (isSet("wfs") /\ ~ExitedAtWFS) => Loaded.wfs = VariantOf(config["wfs"])
              /\ ~ExitedAtWFS => LaterOptionsLoaded

\* a preset and two options on top of it: the two fields hold the configured values,
\* not the preset's, and a field no option names holds the preset's
C19_Witness ==
    /\ pc = "execute"
    /\ isSet("model") /\ config["model"] = "Guyon2005"
    /\ isSet("lam_sci") /\ aosys.lam_sci = config["lam_sci"]
    /\ isSet("r_0") /\ aosys.r_0 = config["r_0"]
    /\ aosys.lam_sci # PresetTable("Guyon2005").lam_sci
    /\ aosys.r_0 # PresetTable("Guyon2005").r_0
    /\ aosys.D = PresetTable("Guyon2005").D

====
